---------------------------- MODULE Spec2Model ----------------------------
(* A state-machine model of src/src/app.py: the command-line entry point,  *)
(* server assembly (create_app), the prewarm hook (_prewarm), the per-call  *)
(* session callback (_handle_session) and the agent wrapper (Assistant).    *)
(*                                                                          *)
(* Python values are modelled as follows.                                   *)
(*   - Optional values: None is the empty tuple, a present value x is <<x>>.*)
(*   - Objects whose identity matters (providers, agents, the VAD handle)   *)
(*     are records [kind, id, attr]; id is the serial number of the         *)
(*     construction of that kind in the process, so two constructions never *)
(*     yield the same object and a reused object keeps its id.              *)
(*   - sys.argv is a sequence; Python's sys.argv[i] is argv[i + 1] here.    *)
(* The modules config, factories and session_handler are imported by app.py *)
(* but are not part of the source at hand; AppConfig, create_stt/llm/tts    *)
(* and SessionHandler are modelled from their documented contracts.         *)
(* silero.VAD.load, Agent.__init__, AgentServer and cli.run_app are         *)
(* external library code; VAD.load and the server calls are modelled as     *)
(* total, Agent.__init__ may raise.                                         *)
EXTENDS Integers, Sequences, FiniteSets, TLC

VARIABLES
    argv,         \* sys.argv of the process
    env,          \* what .env.local and the process environment hold
    appArg,       \* the `config` argument passed to create_app
    mainPc,       \* position of the main program
    exitCode,     \* -1 while the process runs, else its exit status
    stdout,       \* lines printed so far
    log,          \* loguru messages so far
    server,       \* the AgentServer: None, or <<registrations>>
    runCount,     \* number of times cli.run_app(server) was entered
    procPc,       \* the worker process: "cold" before setup_fnc ran, "warm" after
    userdata,     \* proc.userdata, a dictionary
    vadLoads,     \* callers of silero.VAD.load(), in order
    made,         \* made[k]: number of objects of kind k constructed so far
    configsBuilt, \* number of AppConfig instances constructed in the worker
    calls,        \* calls[c]: the frame of _handle_session for inbound call c
    sessions      \* sessions[c]: invocations of SessionHandler.handle_session(ctx c)

vars == <<argv, env, appArg, mainPc, exitCode, stdout, log, server, runCount,
          procPc, userdata, vadLoads, made, configsBuilt, calls, sessions>>

mainVars == <<mainPc, exitCode, stdout, log, server, runCount>>
workerVars == <<procPc, userdata, made, configsBuilt, calls, sessions>>
inputVars == <<argv, env, appArg>>

-----------------------------------------------------------------------------
(* Bounds *)

\* Number of inbound calls the runtime dispatches to the worker.
MaxCalls == 2

Calls == 1..MaxCalls

-----------------------------------------------------------------------------
(* Values *)

None == <<>>
Some(x) == <<x>>

Kinds == {"stt", "llm", "tts", "agent", "vad"}

Unset == [kind |-> "unset", id |-> 0, attr |-> ""]

Obj(k, n, a) == [kind |-> k, id |-> n, attr |-> a]

Result(v) == [ok |-> TRUE, val |-> v, err |-> ""]
Raised(e) == [ok |-> FALSE, val |-> Unset, err |-> e]

\* Python truthiness of an optional string: None and "" are falsy.
Truthy(x) == x # None /\ x[1] # ""

default_instructions == "You are a helpful voice AI assistant. [...] You are curious, friendly, and have a sense of humor."

\* Provider identifiers the factories know.
SttProviders == {"deepgram"}
LlmProviders == {"openai"}
TtsProviders == {"cartesia"}

\* Command lines the process is started with (argv[1] is the script name).
Argvs == { <<"app.py">>,
           <<"app.py", "download-files">>,
           <<"app.py", "start", "download-files">> }

GoodEnv(instr) == [ok |-> TRUE, stt |-> "deepgram", llm |-> "openai",
                   tts |-> "cartesia", instructions |-> instr, session |-> "s-env"]

\* Environments: complete ones with each shape of the instructions setting,
\* one the configuration loader rejects, and one per unrecognised provider.
Envs == { GoodEnv(None), GoodEnv(Some("")), GoodEnv(Some("Be brief.")),
          [GoodEnv(None) EXCEPT !.ok = FALSE],
          [GoodEnv(None) EXCEPT !.stt = "nosuch"],
          [GoodEnv(Some("Be brief.")) EXCEPT !.llm = "nosuch"],
          [GoodEnv(None) EXCEPT !.tts = "nosuch"] }

\* config.AppConfig(): a snapshot of the environment with the sections
\* pipeline, agent and session, or ConfigError.
AppConfig(e) ==
    IF e.ok
    THEN Result([pipeline |-> [stt |-> e.stt, llm |-> e.llm, tts |-> e.tts],
                 agent |-> [instructions |-> e.instructions],
                 session |-> e.session])
    ELSE Raised("ConfigError")

\* A configuration object a caller of create_app may pass; it differs from
\* every configuration the environments above yield.
CallerConfig == [pipeline |-> [stt |-> "deepgram", llm |-> "openai", tts |-> "cartesia"],
                 agent |-> [instructions |-> Some("Caller's prompt")],
                 session |-> "s-caller"]

AppArgs == {None, Some(CallerConfig)}

\* factories.create_stt / create_llm / create_tts: the identifier selects the
\* constructor; an unrecognised one raises UnsupportedProviderError. serial is
\* the number of objects of that kind constructed before this one.
create_stt(pipeline, serial) ==
    IF pipeline.stt \in SttProviders
    THEN Result(Obj("stt", serial + 1, pipeline.stt))
    ELSE Raised("UnsupportedProviderError")

create_llm(pipeline, serial) ==
    IF pipeline.llm \in LlmProviders
    THEN Result(Obj("llm", serial + 1, pipeline.llm))
    ELSE Raised("UnsupportedProviderError")

create_tts(pipeline, serial) ==
    IF pipeline.tts \in TtsProviders
    THEN Result(Obj("tts", serial + 1, pipeline.tts))
    ELSE Raised("UnsupportedProviderError")

\* Assistant.__init__: the instructions handed to Agent.__init__.
Assistant_prompt(instructions) ==
    IF Truthy(instructions) THEN instructions[1] ELSE default_instructions

\* The test of line 103.
IsDownloadCmd_off_by_one(a) == Len(a) > 2 /\ a[3] = "download-files"

IsDownloadCmd_any_position(a) == \E i \in 2..Len(a) : a[i] = "download-files"

IsDownloadCmd(a) == Len(a) > 1 /\ a[2] = "download-files"

\* create_app: the registrations of the returned server.
create_app_conditional(config) ==
    [setup_fnc |-> IF config = None THEN "_prewarm" ELSE "unset",
     rtc_session |-> <<"_handle_session">>]

create_app(config) ==
    [setup_fnc |-> "_prewarm", rtc_session |-> <<"_handle_session">>]

NewFrame == [pc |-> "idle", config |-> None, stt |-> Unset, llm |-> Unset,
             tts |-> Unset, agent |-> Unset, session_handler |-> None,
             error |-> ""]

-----------------------------------------------------------------------------
(* Initial states *)

InitCommon ==
    /\ env \in Envs
    /\ exitCode = -1
    /\ stdout = <<>>
    /\ log = <<>>
    /\ server = None
    /\ runCount = 0
    /\ procPc = "cold"
    /\ userdata = [k \in {} |-> Unset]
    /\ vadLoads = <<>>
    /\ made = [k \in Kinds |-> 0]
    /\ configsBuilt = 0
    /\ calls = [c \in Calls |-> NewFrame]
    /\ sessions = [c \in Calls |-> <<>>]

\* The module run as a script.
Init ==
    /\ InitCommon
    /\ argv \in Argvs
    /\ appArg = None
    /\ mainPc = "l103"

\* The module imported by a host program that calls create_app(config) and
\* then runs the returned server.
InitApp ==
    /\ InitCommon
    /\ argv = <<"host.py">>
    /\ appArg \in AppArgs
    /\ mainPc = "l107"

-----------------------------------------------------------------------------
(* The main program, lines 101-109, with download_files and create_app *)

\* Line 103: choose between the download routine and the server.
main_l103 ==
    /\ mainPc = "l103"
    /\ mainPc' = IF IsDownloadCmd(argv) THEN "l91" ELSE "l107"
    /\ UNCHANGED <<exitCode, stdout, log, server, runCount>>
    /\ UNCHANGED <<inputVars, workerVars, vadLoads>>

\* Line 91.
download_files_l91 ==
    /\ mainPc = "l91"
    /\ stdout' = Append(stdout, "Downloading Silero VAD model...")
    /\ mainPc' = "l92"
    /\ UNCHANGED <<exitCode, log, server, runCount>>
    /\ UNCHANGED <<inputVars, workerVars, vadLoads>>

\* Line 92: the model is loaded and the handle dropped.
download_files_l92 ==
    /\ mainPc = "l92"
    /\ vadLoads' = Append(vadLoads, "download_files")
    /\ mainPc' = "l93"
    /\ UNCHANGED <<exitCode, stdout, log, server, runCount>>
    /\ UNCHANGED <<inputVars, workerVars>>

\* Line 93.
download_files_l93 ==
    /\ mainPc = "l93"
    /\ stdout' = Append(stdout, "Silero VAD model downloaded")
    /\ mainPc' = "l94"
    /\ UNCHANGED <<exitCode, log, server, runCount>>
    /\ UNCHANGED <<inputVars, workerVars, vadLoads>>

\* Lines 94-97.
download_files_l94 ==
    /\ mainPc = "l94"
    /\ stdout' = Append(stdout, "Note: Multilingual turn detector will be downloaded automatically on first use")
    /\ mainPc' = "l98"
    /\ UNCHANGED <<exitCode, log, server, runCount>>
    /\ UNCHANGED <<inputVars, workerVars, vadLoads>>

\* Line 98, after which download_files returns and the script ends.
download_files_l98 ==
    /\ mainPc = "l98"
    /\ stdout' = Append(stdout, "All models downloaded successfully!")
    /\ mainPc' = "exit"
    /\ exitCode' = 0
    /\ UNCHANGED <<log, server, runCount>>
    /\ UNCHANGED <<inputVars, workerVars, vadLoads>>

\* Line 107 (and lines 80-86): server = create_app(...).
main_l107 ==
    /\ mainPc = "l107"
    /\ server' = Some(create_app(appArg))
    /\ log' = Append(log, "Voice agent application initialized")
    /\ mainPc' = "l108"
    /\ UNCHANGED <<exitCode, stdout, runCount>>
    /\ UNCHANGED <<inputVars, workerVars, vadLoads>>

\* Line 108.
main_l108 ==
    /\ mainPc = "l108"
    /\ log' = Append(log, "Starting voice assistant application")
    /\ mainPc' = "l109"
    /\ UNCHANGED <<exitCode, stdout, server, runCount>>
    /\ UNCHANGED <<inputVars, workerVars, vadLoads>>

\* Line 109: cli.run_app(server) is entered and blocks.
main_l109 ==
    /\ mainPc = "l109"
    /\ server # None
    /\ runCount' = runCount + 1
    /\ mainPc' = "running"
    /\ UNCHANGED <<exitCode, stdout, log, server>>
    /\ UNCHANGED <<inputVars, workerVars, vadLoads>>

MainStep ==
    \/ main_l103
    \/ download_files_l91
    \/ download_files_l92
    \/ download_files_l93
    \/ download_files_l94
    \/ download_files_l98
    \/ main_l107
    \/ main_l108
    \/ main_l109

-----------------------------------------------------------------------------
(* The worker process: the runtime calls server.setup_fnc once, before it   *)
(* dispatches any call to the registered session callback.                  *)

\* _prewarm, line 42, as called in a step that leaves frame c alone.
prewarm ==
    /\ mainPc = "running"
    /\ server # None
    /\ server[1].setup_fnc = "_prewarm"
    /\ procPc = "cold"
    /\ vadLoads' = Append(vadLoads, "_prewarm")
    /\ made' = [made EXCEPT !["vad"] = @ + 1]
    /\ userdata' = ("vad" :> Obj("vad", made["vad"] + 1, "silero")) @@ userdata
    /\ procPc' = "warm"
    /\ UNCHANGED <<configsBuilt, calls, sessions>>
    /\ UNCHANGED <<inputVars, mainVars>>

\* The runtime hands inbound call c to the session callback. Calls are
\* numbered in the order of their arrival.
dispatch(c) ==
    /\ mainPc = "running"
    /\ server # None
    /\ \E i \in 1..Len(server[1].rtc_session) : server[1].rtc_session[i] = "_handle_session"
    /\ IF server[1].setup_fnc = "unset" THEN TRUE ELSE procPc = "warm"
    /\ calls[c].pc = "idle"
    /\ IF c = 1 THEN TRUE ELSE calls[c - 1].pc # "idle"
    /\ calls' = [calls EXCEPT ![c].pc = "l48"]
    /\ UNCHANGED <<procPc, userdata, made, configsBuilt, sessions>>
    /\ UNCHANGED <<inputVars, mainVars, vadLoads>>

\* An exception leaves _handle_session: the frame ends with the error.
Raise(c, e) == calls' = [calls EXCEPT ![c].pc = "raised", ![c].error = e]

-----------------------------------------------------------------------------
(* _handle_session, lines 45-67, one action per statement *)

\* Line 48 as it would be if the handler reloaded the VAD model for itself.
handle_session_l48_reloads_vad(c) ==
    /\ calls[c].pc = "l48"
    /\ LET r == AppConfig(env) IN
         IF r.ok
         THEN /\ calls' = [calls EXCEPT ![c].config = Some(r.val), ![c].pc = "l51"]
              /\ configsBuilt' = configsBuilt + 1
         ELSE /\ Raise(c, r.err)
              /\ UNCHANGED configsBuilt
    /\ vadLoads' = Append(vadLoads, "_handle_session")
    /\ made' = [made EXCEPT !["vad"] = @ + 1]
    /\ userdata' = ("vad" :> Obj("vad", made["vad"] + 1, "silero")) @@ userdata
    /\ UNCHANGED <<procPc, sessions>>
    /\ UNCHANGED <<inputVars, mainVars>>

\* Line 48: config = AppConfig().
handle_session_l48(c) ==
    /\ calls[c].pc = "l48"
    /\ LET r == AppConfig(env) IN
         IF r.ok
         THEN /\ calls' = [calls EXCEPT ![c].config = Some(r.val), ![c].pc = "l51"]
              /\ configsBuilt' = configsBuilt + 1
         ELSE /\ Raise(c, r.err)
              /\ UNCHANGED configsBuilt
    /\ UNCHANGED <<procPc, userdata, made, sessions>>
    /\ UNCHANGED <<inputVars, mainVars, vadLoads>>

\* Line 51 as it would be with a provider cached at module level: the first
\* call constructs it, later calls reuse it.
handle_session_l51_cached(c) ==
    /\ calls[c].pc = "l51"
    /\ LET r == create_stt(calls[c].config[1].pipeline, 0) IN
         IF r.ok
         THEN /\ calls' = [calls EXCEPT ![c].stt = r.val, ![c].pc = "l52"]
              /\ made' = [made EXCEPT !["stt"] = 1]
         ELSE /\ Raise(c, r.err)
              /\ UNCHANGED made
    /\ UNCHANGED <<procPc, userdata, configsBuilt, sessions>>
    /\ UNCHANGED <<inputVars, mainVars, vadLoads>>

\* Line 51: stt = create_stt(config.pipeline).
handle_session_l51(c) ==
    /\ calls[c].pc = "l51"
    /\ LET r == create_stt(calls[c].config[1].pipeline, made["stt"]) IN
         IF r.ok
         THEN /\ calls' = [calls EXCEPT ![c].stt = r.val, ![c].pc = "l52"]
              /\ made' = [made EXCEPT !["stt"] = @ + 1]
         ELSE /\ Raise(c, r.err)
              /\ UNCHANGED made
    /\ UNCHANGED <<procPc, userdata, configsBuilt, sessions>>
    /\ UNCHANGED <<inputVars, mainVars, vadLoads>>

\* Line 52 as it would be if an unrecognised identifier fell back to the
\* default provider instead of leaving the handler with the error.
handle_session_l52_fallback(c) ==
    /\ calls[c].pc = "l52"
    /\ LET r == create_llm(calls[c].config[1].pipeline, made["llm"]) IN
         /\ calls' = [calls EXCEPT
                        ![c].llm = IF r.ok THEN r.val
                                   ELSE Obj("llm", made["llm"] + 1, "openai"),
                        ![c].pc = "l53"]
         /\ made' = [made EXCEPT !["llm"] = @ + 1]
    /\ UNCHANGED <<procPc, userdata, configsBuilt, sessions>>
    /\ UNCHANGED <<inputVars, mainVars, vadLoads>>

\* Line 52: llm = create_llm(config.pipeline).
handle_session_l52(c) ==
    /\ calls[c].pc = "l52"
    /\ LET r == create_llm(calls[c].config[1].pipeline, made["llm"]) IN
         IF r.ok
         THEN /\ calls' = [calls EXCEPT ![c].llm = r.val, ![c].pc = "l53"]
              /\ made' = [made EXCEPT !["llm"] = @ + 1]
         ELSE /\ Raise(c, r.err)
              /\ UNCHANGED made
    /\ UNCHANGED <<procPc, userdata, configsBuilt, sessions>>
    /\ UNCHANGED <<inputVars, mainVars, vadLoads>>

\* Line 53: tts = create_tts(config.pipeline).
handle_session_l53(c) ==
    /\ calls[c].pc = "l53"
    /\ LET r == create_tts(calls[c].config[1].pipeline, made["tts"]) IN
         IF r.ok
         THEN /\ calls' = [calls EXCEPT ![c].tts = r.val, ![c].pc = "l56"]
              /\ made' = [made EXCEPT !["tts"] = @ + 1]
         ELSE /\ Raise(c, r.err)
              /\ UNCHANGED made
    /\ UNCHANGED <<procPc, userdata, configsBuilt, sessions>>
    /\ UNCHANGED <<inputVars, mainVars, vadLoads>>

\* Line 56: agent = Assistant(instructions=config.agent.instructions). The
\* base class's constructor is library code and may raise.
handle_session_l56(c) ==
    /\ calls[c].pc = "l56"
    /\ \/ /\ calls' = [calls EXCEPT
                         ![c].agent = Obj("agent", made["agent"] + 1,
                                          Assistant_prompt(calls[c].config[1].agent.instructions)),
                         ![c].pc = "l59"]
          /\ made' = [made EXCEPT !["agent"] = @ + 1]
       \/ /\ Raise(c, "AgentError")
          /\ UNCHANGED made
    /\ UNCHANGED <<procPc, userdata, configsBuilt, sessions>>
    /\ UNCHANGED <<inputVars, mainVars, vadLoads>>

\* session_handler.SessionHandler(stt, llm, tts, agent, session_config): the
\* handler keeps the five values it is given.
SessionHandler(stt, llm, tts, agent, session_config) ==
    [stt |-> stt, llm |-> llm, tts |-> tts, agent |-> agent,
     session_config |-> session_config]

\* Lines 59-65 as they would be with the stt and tts arguments exchanged.
handle_session_l59_swapped(c) ==
    /\ calls[c].pc = "l59"
    /\ calls' = [calls EXCEPT
                   ![c].session_handler =
                       Some(SessionHandler(calls[c].tts, calls[c].llm, calls[c].stt,
                                           calls[c].agent, calls[c].config[1].session)),
                   ![c].pc = "l67"]
    /\ UNCHANGED <<procPc, userdata, made, configsBuilt, sessions>>
    /\ UNCHANGED <<inputVars, mainVars, vadLoads>>

\* Lines 59-65.
handle_session_l59(c) ==
    /\ calls[c].pc = "l59"
    /\ calls' = [calls EXCEPT
                   ![c].session_handler =
                       Some(SessionHandler(calls[c].stt, calls[c].llm, calls[c].tts,
                                           calls[c].agent, calls[c].config[1].session)),
                   ![c].pc = "l67"]
    /\ UNCHANGED <<procPc, userdata, made, configsBuilt, sessions>>
    /\ UNCHANGED <<inputVars, mainVars, vadLoads>>

\* SessionHandler.handle_session(ctx): one session is started for ctx with the
\* handler's five values.
StartSession(ctx, h) == [ctx |-> ctx, stt |-> h.stt, llm |-> h.llm, tts |-> h.tts,
                         agent |-> h.agent, session_config |-> h.session_config]

\* Line 67: session_handler.handle_session(ctx) is called and awaited.
handle_session_l67(c) ==
    /\ calls[c].pc = "l67"
    /\ sessions' = [sessions EXCEPT
                      ![c] = Append(@, StartSession(c, calls[c].session_handler[1]))]
    /\ calls' = [calls EXCEPT ![c].pc = "awaiting"]
    /\ UNCHANGED <<procPc, userdata, made, configsBuilt>>
    /\ UNCHANGED <<inputVars, mainVars, vadLoads>>

\* The awaited session ends and _handle_session returns.
handle_session_return(c) ==
    /\ calls[c].pc = "awaiting"
    /\ calls' = [calls EXCEPT ![c].pc = "done"]
    /\ UNCHANGED <<procPc, userdata, made, configsBuilt, sessions>>
    /\ UNCHANGED <<inputVars, mainVars, vadLoads>>

WorkerStep ==
    \/ prewarm
    \/ \E c \in Calls : dispatch(c)
    \/ \E c \in Calls : handle_session_l48(c)
    \/ \E c \in Calls : handle_session_l51(c)
    \/ \E c \in Calls : handle_session_l52(c)
    \/ \E c \in Calls : handle_session_l53(c)
    \/ \E c \in Calls : handle_session_l56(c)
    \/ \E c \in Calls : handle_session_l59(c)
    \/ \E c \in Calls : handle_session_l67(c)
    \/ \E c \in Calls : handle_session_return(c)

-----------------------------------------------------------------------------
(* Specifications *)

Next == MainStep \/ WorkerStep

\* The module run as a script.
Spec == Init /\ [][Next]_vars

NextApp == main_l107 \/ main_l108 \/ main_l109 \/ WorkerStep

\* The module imported, create_app called with a configuration argument.
SpecApp == InitApp /\ [][NextApp]_vars

-----------------------------------------------------------------------------
(* Properties *)

Range(q) == {q[i] : i \in 1..Len(q)}

\* The command line's first argument is exactly download-files.
FirstArgIsDownload == Len(argv) >= 2 /\ argv[2] = "download-files"

DownloadLines == <<"Downloading Silero VAD model...",
                   "Silero VAD model downloaded",
                   "Note: Multilingual turn detector will be downloaded automatically on first use",
                   "All models downloaded successfully!">>

\* The lines download_files has printed when the main program stands at pc.
PrintedAt(pc) ==
    CASE pc \in {"l103", "l91"} -> 0
      [] pc \in {"l92", "l93"} -> 1
      [] pc = "l94" -> 2
      [] pc = "l98" -> 3
      [] OTHER -> 4

RegisteredBoth == Some([setup_fnc |-> "_prewarm", rtc_session |-> <<"_handle_session">>])

\* C1: run as a script with first argument download-files, the program runs
\* the download routine (the 'Downloading' line is printed before the VAD
\* load, the success lines after it), always can take its next step until it
\* has exited with status 0, and never constructs the server, registers a
\* callback or enters the server run loop.
C1_DownloadFilesOnly ==
    FirstArgIsDownload =>
        /\ mainPc \in {"l103", "l91", "l92", "l93", "l94", "l98", "exit"}
        /\ stdout = SubSeq(DownloadLines, 1, PrintedAt(mainPc))
        /\ vadLoads = IF mainPc \in {"l103", "l91", "l92"} THEN <<>> ELSE <<"download_files">>
        /\ (mainPc = "exit") = (exitCode = 0)
        /\ mainPc # "exit" => exitCode = -1 /\ ENABLED MainStep
        /\ server = None /\ runCount = 0 /\ log = <<>>
        /\ procPc = "cold" /\ \A c \in Calls : calls[c].pc = "idle"

C1_Witness ==
    /\ FirstArgIsDownload
    /\ mainPc = "exit"
    /\ exitCode = 0
    /\ stdout = DownloadLines
    /\ vadLoads = <<"download_files">>

\* C2: for every command line whose first argument is not download-files
\* (none, another word, or download-files only in a later position) the
\* server is created with both callbacks registered, its run loop is entered
\* exactly once (and can always be reached), and the download routine never
\* runs.
C2_ServerOtherwise ==
    ~FirstArgIsDownload =>
        /\ mainPc \in {"l103", "l107", "l108", "l109", "running"}
        /\ stdout = <<>> /\ "download_files" \notin Range(vadLoads)
        /\ exitCode = -1
        /\ server = IF mainPc \in {"l103", "l107"} THEN None ELSE RegisteredBoth
        /\ runCount = IF mainPc = "running" THEN 1 ELSE 0
        /\ mainPc # "running" => ENABLED MainStep

C2_Witness ==
    /\ argv = <<"app.py", "start", "download-files">>
    /\ mainPc = "running"
    /\ runCount = 1
    /\ server = RegisteredBoth
    /\ \E c \in Calls : calls[c].pc = "done"

\* C3: the prompt of every agent constructed equals the default string when
\* the instructions passed are None, and equals the instructions passed,
\* whatever string they are (the empty string included), otherwise.
C3_PromptIsOverrideOrDefault ==
    \A c \in Calls :
        calls[c].agent # Unset =>
            LET i == calls[c].config[1].agent.instructions IN
            calls[c].agent.attr = IF i = None THEN default_instructions ELSE i[1]

\* Objects are the same object when kind and serial number agree.
Ident(o) == <<o.kind, o.id>>

PerCall == {"stt", "llm", "tts", "agent"}

Built(c, k) == calls[c][k] # Unset

\* C4: in every interleaving of the calls, each STT, LLM, TTS or agent object
\* a call holds is of the kind of the variable that holds it (so no object is
\* held under two kinds), no object held by one call is the object held by
\* another call, and the number of objects of each kind constructed is the
\* number of calls that hold one: one set per call.
C4_FreshInstancesPerCall ==
    /\ \A c \in Calls : \A k \in PerCall : Built(c, k) => calls[c][k].kind = k
    /\ \A k \in PerCall : \A c, d \in Calls :
           (c < d /\ Built(c, k) /\ Built(d, k)) => Ident(calls[c][k]) # Ident(calls[d][k])
    /\ \A k \in PerCall : made[k] = Cardinality({c \in Calls : Built(c, k)})

C4_Witness ==
    /\ \A c \in Calls : \A k \in PerCall : Built(c, k)
    /\ calls[1].stt # calls[2].stt
    /\ calls[1].pc = "l67" /\ calls[2].pc = "l59"

\* C5: for each call, SessionHandler.handle_session is invoked with that
\* call's context exactly once when the handler reaches line 67 and not
\* before, and the session it starts gets the STT, LLM, TTS and agent objects
\* and the session configuration built earlier in the same call.
C5_SessionStartedOnceWithFive ==
    \A c \in Calls :
        /\ Len(sessions[c]) = IF calls[c].pc \in {"awaiting", "done"} THEN 1 ELSE 0
        /\ sessions[c] # <<>> =>
               LET s == sessions[c][1] IN
               /\ s.ctx = c
               /\ calls[c].config # None
               /\ \A k \in PerCall : Built(c, k) /\ s[k] = calls[c][k] /\ s[k].kind = k
               /\ s.session_config = calls[c].config[1].session
               /\ calls[c].session_handler # None

C5_Witness ==
    /\ calls[1].pc = "done"
    /\ calls[2].pc = "awaiting"
    /\ Len(sessions[1]) = 1 /\ Len(sessions[2]) = 1
    /\ sessions[1][1].stt # sessions[2][1].stt

\* C6: at most one AppConfig instance is constructed in the worker process,
\* however many calls the worker handles.
C6_OneConfigPerWorker == configsBuilt <= 1

\* C7: when the configuration is absent or malformed (AppConfig raises
\* ConfigError) the process does not proceed: the server run loop is never
\* entered and no inbound call is dispatched.
C7_ConfigErrorFatalAtStart ==
    ~env.ok => runCount = 0 /\ \A c \in Calls : calls[c].pc = "idle"

HasVad == "vad" \in DOMAIN userdata /\ userdata["vad"].kind = "vad"

HandlerMoved == calls' # calls \/ sessions' # sessions

\* C8: once the prewarm hook has run, the process-local store holds a VAD
\* handle under the key vad, and the same handle, in every later state; the
\* store is written only by the step that runs the prewarm hook; and no step
\* of _handle_session calls the VAD loader or writes the store.
C8_PrewarmedVadKept ==
    /\ [](procPc = "warm" => HasVad /\ "_prewarm" \in Range(vadLoads))
    /\ []("_handle_session" \notin Range(vadLoads))
    /\ [][ /\ HasVad => "vad" \in DOMAIN userdata' /\ userdata'["vad"] = userdata["vad"]
           /\ userdata' # userdata => procPc = "cold" /\ procPc' = "warm" /\ ~HandlerMoved
           /\ vadLoads' # vadLoads => ~HandlerMoved
         ]_vars

C8_Witness ==
    /\ procPc = "warm"
    /\ HasVad
    /\ vadLoads = <<"_prewarm">>
    /\ calls[1].pc = "done"
    /\ calls[2].pc = "awaiting"

\* The component of a frame bound by each statement, in program order.
Steps == <<"config", "stt", "llm", "tts", "agent", "session_handler">>

Bound(c, i) ==
    IF Steps[i] \in {"config", "session_handler"}
    THEN calls[c][Steps[i]] # None
    ELSE calls[c][Steps[i]] # Unset

\* The statement of frame c that failed: the first that bound nothing.
FailedAt(c) == CHOOSE i \in 1..Len(Steps) : ~Bound(c, i) /\ \A j \in 1..(i - 1) : Bound(c, j)

ProviderKinds == {"stt", "llm", "tts"}

\* C9: when AppConfig, a provider factory or the agent's construction fails in
\* a call, the handler ends with that error: the statement that failed and
\* every later one bind nothing, no session is started for the call, the
\* frame never changes again (no retry), a provider object is only ever the
\* one the configuration names (no fallback), only as many objects are
\* constructed as calls hold, and the step in which a call fails changes
\* nothing of any other call.
C9_ErrorsLeaveHandler ==
    /\ [](\A c \in Calls :
            /\ calls[c].pc = "raised" =>
                 /\ sessions[c] = <<>>
                 /\ ~Bound(c, 5) /\ ~Bound(c, 6)
                 /\ \A i \in FailedAt(c)..Len(Steps) : ~Bound(c, i)
                 /\ calls[c].error =
                        CASE FailedAt(c) = 1 -> "ConfigError"
                          [] FailedAt(c) \in 2..4 -> "UnsupportedProviderError"
                          [] OTHER -> "AgentError"
                 /\ FailedAt(c) = 1 => ~env.ok
                 /\ FailedAt(c) \in 2..4 =>
                        calls[c].config[1].pipeline[Steps[FailedAt(c)]] = "nosuch"
            /\ calls[c].pc # "raised" => calls[c].error = ""
            /\ \A k \in ProviderKinds :
                   Built(c, k) => calls[c][k].attr = calls[c].config[1].pipeline[k])
    /\ [](\A k \in PerCall : made[k] = Cardinality({c \in Calls : Built(c, k)}))
    /\ [][\A c \in Calls :
            /\ calls[c].pc = "raised" => calls'[c] = calls[c] /\ sessions'[c] = sessions[c]
            /\ (calls[c].pc # "raised" /\ calls'[c].pc = "raised") =>
                   /\ \A d \in Calls \ {c} : calls'[d] = calls[d]
                   /\ sessions' = sessions /\ made' = made
         ]_vars

C9_Witness ==
    /\ calls[1].pc = "raised"
    /\ calls[1].error = "AgentError"
    /\ calls[2].pc = "done"
    /\ Len(sessions[2]) = 1

=============================================================================
